---- MODULE Spec2Model ----
(***************************************************************************)
(* Model of loaded-rs: enumeration of the objects loaded into the process, *)
(* name matching, and the batch match protocol (ObjectMap / fill_map) with *)
(* its two strategies: the full traversal of os/unix (dl_iterate_phdr) and  *)
(* the direct named lookup of os/windows (GetModuleHandleA).               *)
(*                                                                         *)
(* A name is a sequence of one-character strings (the bytes of a CStr).    *)
(* A loaded object is identified by its position in objs, the order in     *)
(* which the platform enumerates the loaded objects.                       *)
(***************************************************************************)
EXTENDS Integers, Sequences, FiniteSets, TLC

\* ------------------------------------------------------------- bounds
\* At most this many objects are loaded.
MaxObjs == 3
\* At most this many slots in a map.
MaxSlots == 2
\* At most this many candidate names per slot.
MaxCands == 2

\* ------------------------------------------------------------- names
\* std::path::MAIN_SEPARATOR on the traversal platform, and the '.' byte.
MAIN_SEPARATOR == "/"
DOT == "."

\* Names the loader reports: the main program (empty name), a bare name,
\* a path with an extension whose nice name is "a", and another bare name.
ObjNames == { <<>>, <<"a">>, <<"/", "a", ".", "b">>, <<"b">> }
\* Names a caller asks for.
CandNames == { <<"a">>, <<"b">> }

\* Sequences over S of length lo..hi without repeated elements.
InjSeqs(S, lo, hi) ==
    { s \in UNION { [1..k -> S] : k \in lo..hi } :
        \A i, j \in DOMAIN s : i # j => s[i] # s[j] }

\* slice_after_last searching from the start: cuts after the first element.
slice_after_first(slice, element) ==
    IF \E i \in 1..Len(slice) : slice[i] = element
    THEN LET index == CHOOSE i \in 1..Len(slice) :
                         /\ slice[i] = element
                         /\ \A j \in 1..(i-1) : slice[j] # element
         IN  SubSeq(slice, index + 1, Len(slice))
    ELSE slice

\* util.rs: slice_after_last (searches from the end).
slice_after_last(slice, element) ==
    IF \E i \in 1..Len(slice) : slice[i] = element
    THEN LET index == CHOOSE i \in 1..Len(slice) :
                         /\ slice[i] = element
                         /\ \A j \in (i+1)..Len(slice) : slice[j] # element
         IN  SubSeq(slice, index + 1, Len(slice))
    ELSE slice

\* util.rs: slice_before_first (searches from the start).
slice_before_first(slice, element) ==
    IF \E i \in 1..Len(slice) : slice[i] = element
    THEN LET index == CHOOSE i \in 1..Len(slice) :
                         /\ slice[i] = element
                         /\ \A j \in 1..(i-1) : slice[j] # element
         IN  SubSeq(slice, 1, index - 1)
    ELSE slice

\* to_nice_name cutting at the first '.' of the whole name before it drops
\* the directories.
to_nice_name_dot_first(name) ==
    slice_after_last(slice_before_first(name, DOT), MAIN_SEPARATOR)

\* util.rs: to_nice_name.
to_nice_name(name) ==
    slice_before_first(slice_after_last(name, MAIN_SEPARATOR), DOT)

\* check_lib_name normalizing the target instead of the library name.
check_lib_name_target_normalized(lib, target) ==
    lib = target \/ lib = to_nice_name(target)

\* util.rs: check_lib_name(lib, target).
check_lib_name(lib, target) ==
    lib = target \/ to_nice_name(lib) = target

\* default_name_matcher taking the nice name of the candidate instead of the
\* object's.
default_name_matcher_name_normalized(object_name, name) ==
    LET original_name == object_name
        nice_name == to_nice_name(name)
    IN  nice_name = original_name \/ name = original_name

\* map.rs: default_name_matcher(object_name) applied to name.
default_name_matcher(object_name, name) ==
    LET original_name == object_name
        nice_name == to_nice_name(original_name)
    IN  name = nice_name \/ name = original_name

\* ------------------------------------------------------------- state
VARIABLES
    objs,      \* names of the loaded objects, in platform enumeration order
    kind,      \* entry type of the map: "tuple" = (K, Option<V>), "default" =
               \* an entry with several names and the default name_matches
    map0,      \* the map as the caller passed it to fill_map
    mapU,      \* the map filled by the traversal strategy (os/unix)
    mapW,      \* the map filled by the direct-lookup strategy (os/windows)
    pc,        \* "push": unix fill_map runs, "pull": windows fill_map runs
    cursor,    \* dl_iterate_phdr: index of the next object to report
    raw,       \* dl_iterate_phdr: value the last callback returned
    wi,        \* windows fill_map: index of the entry being processed
    wj,        \* windows fill_map: index of the name being looked up
    resU,      \* result of unix fill_map
    resW,      \* result of windows fill_map
    visited,   \* history: callback invocations of the traversal
    lookups,   \* history: named lookups issued
    writesU,   \* history: per slot, the write calls of the traversal strategy
    writesW,   \* history: per slot, the write calls of the lookup strategy
    fullOps,   \* history: platform operations performed on a map already full
    osFailed,  \* history: a platform call failed in this call
    platform,  \* "unix" or "windows" for a single query operation
    op,        \* the query operation: "map_by_name", "find_map", "for_each"
    query,     \* map_by_name: the name asked for
    fsel,      \* the objects on which the caller's f returns Some / stop
    rkind,     \* for_each: the type f returns: "bool", "unit", "cf"
    result,    \* the operation's Result<Option<R>, Error>
    fcalls,    \* history: the objects the caller's f was invoked on
    snap,      \* windows: the snapshot handle: "none", "open", "closed"
    iterEntry, \* windows: Modules.entry, 0 = None
    closed,    \* windows: the number of CloseHandle calls on the snapshot handle
    refs,      \* per object: the loader's reference count above its initial value
    handles,   \* the Symbols / Library values handed out: [obj, st]
    arg,       \* the argument of the pure function under study
    out        \* the values computed from arg

fillVars == << kind, map0, mapU, mapW, wi, wj, resU, resW, writesU, writesW, fullOps >>
queryVars == << platform, op, query, fsel, rkind, result, fcalls, snap, iterEntry >>

libVars == << refs, handles >>
pureVars == << arg, out >>

vars == << objs, pc, cursor, raw, visited, lookups, osFailed, fillVars, queryVars,
           closed, libVars, pureVars >>

\* ------------------------------------------------------------- map.rs
\* Option<V> of an entry; V::from(object) keeps the object's identity.
None == [some |-> FALSE, obj |-> 0]
Some(object) == [some |-> TRUE, obj |-> object]
\* A value stored by an earlier call (object 0 is not in the current list).
Prewritten == Some(0)

\* names yielding the candidates in the opposite order.
names_reversed(entry) ==
    [n \in DOMAIN entry.names |-> entry.names[Len(entry.names) + 1 - n]]

\* map.rs: ObjectMapEntry::names.
names(entry) == entry.names

\* map.rs: ObjectMapEntry::is_written for (K, Option<V>): self.1.is_some().
is_written(entry) == entry.val.some

\* is_full that takes a map without entries for not full.
is_full_nonempty(entries) ==
    entries # << >> /\ \A i \in DOMAIN entries : is_written(entries[i])

\* is_full with any in place of all: a map counts as full once one entry is
\* written.
is_full_any(entries) == \E i \in DOMAIN entries : is_written(entries[i])

\* map.rs: ObjectMap::is_full.
is_full(entries) == \A i \in DOMAIN entries : is_written(entries[i])

\* name_matches without the override of the (K, Option<V>) entry.
name_matches_never_overridden(k, entry, name) ==
    \E i \in DOMAIN names(entry) : default_name_matcher(name, names(entry)[i])

\* map.rs: ObjectMapEntry::name_matches; the (K, Option<V>) entry overrides it
\* with self.0 == *name, every other entry keeps the default implementation.
name_matches(k, entry, name) ==
    IF k = "tuple"
    THEN names(entry)[1] = name
    ELSE \E i \in DOMAIN names(entry) : default_name_matcher(name, names(entry)[i])

\* map.rs: ObjectMapEntryMut::write: self.1 = Some(V::from(object)).
write(entry, object) == [entry EXCEPT !.val = Some(object)]

\* ------------------------------------------------------------- os/unix
\* ForEachObjectResult::into_raw for bool; 0 stands for None.
into_raw_bool(b) == IF b THEN 1 ELSE 0

\* ForEachObjectResult::into_raw for ControlFlow<()>.
into_raw_cf(cf) == into_raw_bool(cf = "Break")

\* The closure unix fill_map hands to for_each_object, applied to object o:
\* the map after the call, the slots write was invoked on, the value returned.
unix_fill_map_callback(k, entries, o, name) ==
    IF is_full(entries)
    THEN [map |-> entries, wrote |-> {}, ret |-> "Break"]
    ELSE LET hit == { i \in DOMAIN entries : name_matches(k, entries[i], name) }
         IN  [map   |-> [i \in DOMAIN entries |->
                            IF i \in hit THEN write(entries[i], o) ELSE entries[i]],
              wrote |-> hit,
              ret   |-> "Continue"]

\* One write call in a slot's history: the object and is_written() before it.
LogWrites(log, entries, wrote, o) ==
    [i \in DOMAIN log |->
        IF i \in wrote
        THEN Append(log[i], [obj |-> o, prev |-> is_written(entries[i])])
        ELSE log[i]]

\* dl_iterate_phdr invokes the callback on the next object (for_each_object_callback).
unix_fill_map_visit ==
    /\ pc = "push"
    /\ raw = 0
    /\ cursor <= Len(objs)
    /\ LET r == unix_fill_map_callback(kind, mapU, cursor, objs[cursor])
       IN  /\ mapU' = r.map
           /\ raw' = into_raw_cf(r.ret)
           /\ writesU' = LogWrites(writesU, mapU, r.wrote, cursor)
           /\ visited' = Append(visited, cursor)
           /\ fullOps' = fullOps + (IF is_full(mapU) THEN 1 ELSE 0)
    /\ cursor' = cursor + 1
    /\ UNCHANGED << libVars, pureVars, closed, objs, kind, map0, mapW, pc, wi, wj, resU, resW,
                    lookups, writesW, osFailed, queryVars >>

\* dl_iterate_phdr returns: a callback returned nonzero or no object is left.
unix_fill_map_return ==
    /\ pc = "push"
    /\ (raw # 0 \/ cursor > Len(objs))
    /\ resU' = "Ok"
    /\ pc' = "pull"
    /\ UNCHANGED << libVars, pureVars, closed, objs, kind, map0, mapU, mapW, cursor, raw, wi, wj, resW,
                    visited, lookups, writesU, writesW, fullOps, osFailed, queryVars >>

\* ------------------------------------------------------------- os/windows
\* GetModuleHandleA: the handle of the loaded module of that name, 0 = null.
GetModuleHandleA(loaded, name) ==
    IF \E i \in DOMAIN loaded : loaded[i] = name
    THEN CHOOSE i \in DOMAIN loaded :
            /\ loaded[i] = name
            /\ \A j \in 1..(i-1) : loaded[j] # name
    ELSE 0

\* Module::find treating a null handle as a failure.
Module_find_null_is_error(loaded, name, infoOk) ==
    LET handle == GetModuleHandleA(loaded, name)
    IN  IF handle # 0 /\ infoOk
        THEN [tag |-> "Some", obj |-> handle]
        ELSE [tag |-> "Err", obj |-> 0]

\* windows: Module::find; infoOk is the outcome of GetModuleInformation.
Module_find(loaded, name, infoOk) ==
    LET handle == GetModuleHandleA(loaded, name)
    IN  IF handle # 0
        THEN IF infoOk THEN [tag |-> "Some", obj |-> handle]
                       ELSE [tag |-> "Err", obj |-> 0]
        ELSE [tag |-> "None", obj |-> 0]

\* find_object swallowing a failed lookup as "no such module".
find_object_error_is_none(loaded, name, infoOk) ==
    LET found == Module_find(loaded, name, infoOk)
    IN  IF found.tag = "Err" THEN [tag |-> "None", obj |-> 0] ELSE found

\* windows: Objects::find_object.
find_object(loaded, name, infoOk) == Module_find(loaded, name, infoOk)

\* windows fill_map: one named lookup for the current name of the current
\* entry, with what the loops do with its result.
windows_fill_map_lookup ==
    /\ pc = "pull"
    /\ wi <= Len(mapW)
    /\ \E infoOk \in BOOLEAN :
        LET entry == mapW[wi]
            name  == names(entry)[wj]
            found == find_object(objs, name, infoOk)
        IN  /\ lookups' = Append(lookups, [slot |-> wi, cand |-> wj, tag |-> found.tag])
            /\ fullOps' = fullOps + (IF is_full(mapW) THEN 1 ELSE 0)
            /\ osFailed' = (osFailed \/ (GetModuleHandleA(objs, name) # 0 /\ ~infoOk))
            /\ IF found.tag = "Err"
               THEN /\ resW' = "Err"
                    /\ pc' = "done"
                    /\ UNCHANGED << mapW, wi, wj, writesW >>
               ELSE IF found.tag = "Some"
               THEN /\ mapW' = [mapW EXCEPT ![wi] = write(entry, found.obj)]
                    /\ writesW' = LogWrites(writesW, mapW, {wi}, found.obj)
                    /\ wi' = wi + 1
                    /\ wj' = 1
                    /\ UNCHANGED << resW, pc >>
               ELSE /\ IF wj < Len(names(entry))
                       THEN wj' = wj + 1 /\ wi' = wi
                       ELSE wj' = 1 /\ wi' = wi + 1
                    /\ UNCHANGED << mapW, writesW, resW, pc >>
    /\ UNCHANGED << libVars, pureVars, closed, objs, kind, map0, mapU, cursor, raw, resU, visited, writesU,
                    queryVars >>

\* windows fill_map: the entries are exhausted, Ok(()).
windows_fill_map_return ==
    /\ pc = "pull"
    /\ wi > Len(mapW)
    /\ resW' = "Ok"
    /\ pc' = "done"
    /\ UNCHANGED << libVars, pureVars, closed, objs, kind, map0, mapU, mapW, cursor, raw, wi, wj, resU,
                    visited, lookups, writesU, writesW, fullOps, osFailed, queryVars >>

\* ------------------------------------------------------------- fill_map
\* Candidate lists of an entry: the tuple entry has exactly one name.
CandLists(k) ==
    IF k = "tuple" THEN InjSeqs(CandNames, 1, 1) ELSE InjSeqs(CandNames, 1, MaxCands)

Entries(k) == [names : CandLists(k), val : {None, Prewritten}]

\* A single entry is a map of one slot, a slice of entries a map of several.
Maps(k) == UNION { [1..n -> Entries(k)] : n \in 1..MaxSlots }

Init ==
    /\ objs \in InjSeqs(ObjNames, 1, MaxObjs)
    /\ kind \in {"tuple", "default"}
    /\ map0 \in Maps(kind)
    /\ mapU = map0
    /\ mapW = map0
    /\ pc = "push"
    /\ cursor = 1
    /\ raw = 0
    /\ wi = 1
    /\ wj = 1
    /\ resU = "Running"
    /\ resW = "Running"
    /\ visited = << >>
    /\ lookups = << >>
    /\ writesU = [i \in DOMAIN map0 |-> << >>]
    /\ writesW = [i \in DOMAIN map0 |-> << >>]
    /\ fullOps = 0
    /\ osFailed = FALSE
    /\ platform = "both"
    /\ op = "fill_map"
    /\ query = << >>
    /\ fsel = {}
    /\ rkind = "unit"
    /\ result = [tag |-> "Running", val |-> None]
    /\ fcalls = << >>
    /\ snap = "none"
    /\ iterEntry = 0
    /\ closed = 0
    /\ refs = << >>
    /\ handles = << >>
    /\ arg = << >>
    /\ out = << >>

Next ==
    \/ unix_fill_map_visit
    \/ unix_fill_map_return
    \/ windows_fill_map_lookup
    \/ windows_fill_map_return

Spec == Init /\ [][Next]_vars

\* ------------------------------------------------------------- queries
\* Names a caller passes to map_by_name; no loaded object is ever named "c".
QueryNames == { <<"a">>, <<"/", "a", ".", "b">>, <<"b">>, <<"c">> }

\* The caller's f of find_map: Some on the selected objects; the value tells
\* which object produced it.
f_find_map(sel, o) == IF o \in sel THEN Some(o) ELSE None

\* unix: UnixObject::is_main_program: self.name().is_empty().
unix_is_main_program(name) == Len(name) = 0

\* windows: Object::is_main_program: the module's handle is the address of
\* __ImageBase, the base of the image this code is linked into.
windows_is_main_program(handle, imageBase) == handle = imageBase

\* The caller's f of for_each: a value of the type rk, a stop signal on the
\* selected objects where the type has one.
f_for_each(rk, sel, o) ==
    IF rk = "unit" THEN "unit"
    ELSE IF rk = "bool" THEN (IF o \in sel THEN "true" ELSE "false")
    ELSE (IF o \in sel THEN "Break" ELSE "Continue")

\* into_is_break with ControlFlow tested by is_continue.
into_is_break_is_continue(r) ==
    IF r \in {"true", "false"} THEN r = "true"
    ELSE IF r = "unit" THEN FALSE
    ELSE r = "Continue"

\* lib.rs: ForEachResult::into_is_break for bool, () and ControlFlow<(), ()>.
into_is_break(r) ==
    IF r \in {"true", "false"} THEN r = "true"
    ELSE IF r = "unit" THEN FALSE
    ELSE r = "Break"

\* The map_by_name closure going on after a match.
unix_map_by_name_callback_no_break(name_bytes, res, o, name) ==
    IF check_lib_name(name, name_bytes)
    THEN [result |-> Some(o), called |-> TRUE, ret |-> "Continue"]
    ELSE [result |-> res, called |-> FALSE, ret |-> "Continue"]

\* unix map_by_name: the closure handed to for_each_object, on object o;
\* called tells whether the FnOnce f was taken and invoked.
unix_map_by_name_callback(name_bytes, res, o, name) ==
    IF check_lib_name(name, name_bytes)
    THEN [result |-> Some(o), called |-> TRUE, ret |-> "Break"]
    ELSE [result |-> res, called |-> FALSE, ret |-> "Continue"]

\* The find_map closure going on after a present value.
unix_find_map_callback_no_break(sel, res, o) ==
    IF f_find_map(sel, o).some
    THEN [result |-> f_find_map(sel, o), ret |-> "Continue"]
    ELSE [result |-> res, ret |-> "Continue"]

\* unix find_map: the closure handed to for_each_object, on object o.
unix_find_map_callback(sel, res, o) ==
    IF f_find_map(sel, o).some
    THEN [result |-> f_find_map(sel, o), ret |-> "Break"]
    ELSE [result |-> res, ret |-> "Continue"]

\* unix ObjectsImpl::for_each: the closure handed to for_each_object (R = bool).
unix_for_each_callback(rk, sel, o) == into_is_break(f_for_each(rk, sel, o))

\* dl_iterate_phdr invokes the map_by_name closure on the next object.
unix_map_by_name_visit ==
    /\ pc = "run" /\ platform = "unix" /\ op = "map_by_name"
    /\ raw = 0
    /\ cursor <= Len(objs)
    /\ LET r == unix_map_by_name_callback(query, result.val, cursor, objs[cursor])
       IN  /\ result' = [result EXCEPT !.val = r.result]
           /\ fcalls' = IF r.called THEN Append(fcalls, cursor) ELSE fcalls
           /\ raw' = into_raw_cf(r.ret)
    /\ visited' = Append(visited, cursor)
    /\ cursor' = cursor + 1
    /\ UNCHANGED << libVars, pureVars, closed, objs, pc, lookups, osFailed, fillVars,
                    platform, op, query, fsel, rkind, snap, iterEntry >>

\* dl_iterate_phdr invokes the find_map closure on the next object.
unix_find_map_visit ==
    /\ pc = "run" /\ platform = "unix" /\ op = "find_map"
    /\ raw = 0
    /\ cursor <= Len(objs)
    /\ LET r == unix_find_map_callback(fsel, result.val, cursor)
       IN  /\ result' = [result EXCEPT !.val = r.result]
           /\ raw' = into_raw_cf(r.ret)
    /\ fcalls' = Append(fcalls, cursor)
    /\ visited' = Append(visited, cursor)
    /\ cursor' = cursor + 1
    /\ UNCHANGED << libVars, pureVars, closed, objs, pc, lookups, osFailed, fillVars,
                    platform, op, query, fsel, rkind, snap, iterEntry >>

\* dl_iterate_phdr invokes the for_each closure on the next object.
unix_for_each_visit ==
    /\ pc = "run" /\ platform = "unix" /\ op = "for_each"
    /\ raw = 0
    /\ cursor <= Len(objs)
    /\ raw' = into_raw_bool(unix_for_each_callback(rkind, fsel, cursor))
    /\ fcalls' = Append(fcalls, cursor)
    /\ visited' = Append(visited, cursor)
    /\ cursor' = cursor + 1
    /\ UNCHANGED << libVars, pureVars, closed, objs, pc, lookups, osFailed, fillVars,
                    platform, op, query, fsel, rkind, result, snap, iterEntry >>

\* dl_iterate_phdr returns; the operation returns Ok(result).
unix_query_return ==
    /\ pc = "run" /\ platform = "unix"
    /\ (raw # 0 \/ cursor > Len(objs))
    /\ result' = [result EXCEPT !.tag = "Ok"]
    /\ pc' = "done"
    /\ UNCHANGED << libVars, pureVars, closed, objs, cursor, raw, visited, lookups, osFailed, fillVars,
                    platform, op, query, fsel, rkind, fcalls, snap, iterEntry >>

\* OwnedHandle dropped without a CloseHandle call.
OwnedHandle_drop_forgets(n) == n

\* tlhelp32.rs: Drop for OwnedHandle: one CloseHandle call on the handle; n is
\* the number of CloseHandle calls made so far.
OwnedHandle_drop(n) == n + 1

\* map_by_name implemented as a scan of a module snapshot instead of a named
\* lookup.
windows_map_by_name_by_snapshot ==
    /\ pc = "run" /\ platform = "windows" /\ op = "map_by_name"
    /\ LET hits == {o \in DOMAIN objs : check_lib_name(objs[o], query)}
           hit == IF hits = {} THEN 0
                  ELSE CHOOSE o \in hits : \A e \in hits : o <= e
       IN  /\ visited' = [k \in 1..(IF hit = 0 THEN Len(objs) ELSE hit) |-> k]
           /\ result' = [tag |-> "Ok", val |-> IF hit = 0 THEN None ELSE Some(hit)]
           /\ fcalls' = IF hit = 0 THEN fcalls ELSE Append(fcalls, hit)
    /\ snap' = "closed"
    /\ closed' = OwnedHandle_drop(closed)
    /\ pc' = "done"
    /\ UNCHANGED << libVars, pureVars, objs, cursor, raw, lookups, osFailed, fillVars,
                    platform, op, query, fsel, rkind, iterEntry >>

\* windows ObjectsImpl::map_by_name: one named lookup, f on the module found.
windows_map_by_name ==
    /\ pc = "run" /\ platform = "windows" /\ op = "map_by_name"
    /\ \E infoOk \in BOOLEAN :
        LET found == find_object(objs, query, infoOk)
        IN  /\ lookups' = Append(lookups, [slot |-> 0, cand |-> 0, tag |-> found.tag])
            /\ osFailed' = (GetModuleHandleA(objs, query) # 0 /\ ~infoOk)
            /\ IF found.tag = "Some"
               THEN /\ result' = [tag |-> "Ok", val |-> Some(found.obj)]
                    /\ fcalls' = Append(fcalls, found.obj)
               ELSE /\ result' = [tag |-> (IF found.tag = "None" THEN "Ok" ELSE "Err"),
                                  val |-> None]
                    /\ fcalls' = fcalls
    /\ pc' = "done"
    /\ UNCHANGED << libVars, pureVars, closed, objs, cursor, raw, visited, fillVars,
                    platform, op, query, fsel, rkind, snap, iterEntry >>

\* ModuleSnapshot::new whose failure is taken for a process without modules:
\* the operation returns Ok with nothing found.
windows_snapshot_new_failure_is_empty ==
    /\ pc = "run" /\ platform = "windows" /\ op \in {"find_map", "for_each"}
    /\ snap = "none"
    /\ \E outcome \in {"invalid_handle", "first_failed", "ok"} :
        IF outcome = "ok"
        THEN /\ snap' = "open"
             /\ iterEntry' = 1
             /\ cursor' = 1
             /\ UNCHANGED << pc, result, osFailed, closed >>
        ELSE /\ snap' = (IF outcome = "first_failed" THEN "closed" ELSE "none")
             /\ closed' = (IF outcome = "first_failed"
                           THEN OwnedHandle_drop(closed) ELSE closed)
             /\ result' = [tag |-> "Ok", val |-> None]
             /\ osFailed' = TRUE
             /\ pc' = "done"
             /\ UNCHANGED << iterEntry, cursor >>
    /\ UNCHANGED << libVars, pureVars, objs, raw, visited, lookups, fillVars,
                    platform, op, query, fsel, rkind, fcalls >>

\* tlhelp32.rs: ModuleSnapshot::new. CreateToolhelp32Snapshot may return
\* INVALID_HANDLE_VALUE; Module32First may fail, and the handle is dropped.
windows_snapshot_new ==
    /\ pc = "run" /\ platform = "windows" /\ op \in {"find_map", "for_each"}
    /\ snap = "none"
    /\ \E outcome \in {"invalid_handle", "first_failed", "ok"} :
        IF outcome = "ok"
        THEN /\ snap' = "open"
             /\ iterEntry' = 1
             /\ cursor' = 1
             /\ UNCHANGED << pc, result, osFailed, closed >>
        ELSE /\ snap' = (IF outcome = "first_failed" THEN "closed" ELSE "none")
             /\ closed' = (IF outcome = "first_failed"
                           THEN OwnedHandle_drop(closed) ELSE closed)
             /\ result' = [tag |-> "Err", val |-> None]
             /\ osFailed' = TRUE
             /\ pc' = "done"
             /\ UNCHANGED << iterEntry, cursor >>
    /\ UNCHANGED << libVars, pureVars, objs, raw, visited, lookups, fillVars,
                    platform, op, query, fsel, rkind, fcalls >>

\* Module32Next on the snapshot: the entry after position e, 0 when there is
\* none. The position is kept in the snapshot (Module32First sets it to the
\* first entry, each successful Module32Next advances it).
Module32Next(loaded, e) == IF e < Len(loaded) THEN e + 1 ELSE 0

\* tlhelp32.rs: Modules::next with the snapshot at position pos: the item
\* yielded (0 = None), the new self.entry, the snapshot's new position, and
\* whether Module32Next was called.
Modules_next(loaded, e, pos) ==
    IF e = 0
    THEN [item |-> 0, entry |-> 0, pos |-> pos, called |-> FALSE]
    ELSE [item |-> e,
          entry |-> Module32Next(loaded, pos),
          pos |-> IF Module32Next(loaded, pos) # 0 THEN Module32Next(loaded, pos) ELSE pos,
          called |-> TRUE]

\* windows find_map: the iterator yields a module and f is applied to it; at
\* the first Some the operation returns and the snapshot is dropped.
windows_find_map_next ==
    /\ pc = "run" /\ platform = "windows" /\ op = "find_map"
    /\ snap = "open"
    /\ Modules_next(objs, iterEntry, cursor).item # 0
    /\ LET n == Modules_next(objs, iterEntry, cursor)
           t == f_find_map(fsel, n.item)
       IN  /\ iterEntry' = n.entry
           /\ cursor' = n.pos
           /\ visited' = Append(visited, n.item)
           /\ fcalls' = Append(fcalls, n.item)
           /\ IF t.some
              THEN /\ result' = [tag |-> "Ok", val |-> t]
                   /\ snap' = "closed"
                   /\ closed' = OwnedHandle_drop(closed)
                   /\ pc' = "done"
              ELSE UNCHANGED << result, snap, closed, pc >>
    /\ UNCHANGED << libVars, pureVars, objs, raw, lookups, osFailed, fillVars,
                    platform, op, query, fsel, rkind >>

\* windows for_each: the iterator yields a module and f is applied to it; on
\* a stop signal the loop breaks, Ok(()) is returned, the snapshot dropped.
windows_for_each_next ==
    /\ pc = "run" /\ platform = "windows" /\ op = "for_each"
    /\ snap = "open"
    /\ Modules_next(objs, iterEntry, cursor).item # 0
    /\ LET n == Modules_next(objs, iterEntry, cursor)
       IN  /\ iterEntry' = n.entry
           /\ cursor' = n.pos
           /\ visited' = Append(visited, n.item)
           /\ fcalls' = Append(fcalls, n.item)
           /\ IF into_is_break(f_for_each(rkind, fsel, n.item))
              THEN /\ result' = [tag |-> "Ok", val |-> None]
                   /\ snap' = "closed"
                   /\ closed' = OwnedHandle_drop(closed)
                   /\ pc' = "done"
              ELSE UNCHANGED << result, snap, closed, pc >>
    /\ UNCHANGED << libVars, pureVars, objs, raw, lookups, osFailed, fillVars,
                    platform, op, query, fsel, rkind >>

\* windows find_map / for_each: the iterator is exhausted (next() is None);
\* the operation returns Ok and the snapshot is dropped.
windows_iter_end ==
    /\ pc = "run" /\ platform = "windows" /\ op \in {"find_map", "for_each"}
    /\ snap = "open"
    /\ Modules_next(objs, iterEntry, cursor).item = 0
    /\ result' = [tag |-> "Ok", val |-> None]
    /\ snap' = "closed"
    /\ closed' = OwnedHandle_drop(closed)
    /\ pc' = "done"
    /\ UNCHANGED << libVars, pureVars, objs, cursor, raw, visited, lookups, osFailed, fillVars,
                    platform, op, query, fsel, rkind, fcalls, iterEntry >>

\* The inputs of one query call.
QueryInputs(n) ==
    [op : {"map_by_name"}, query : QueryNames, fsel : {{}}, rkind : {"unit"}]
    \cup [op : {"find_map"}, query : {<< >>}, fsel : SUBSET (1..n), rkind : {"unit"}]
    \cup [op : {"for_each"}, query : {<< >>}, fsel : SUBSET (1..n), rkind : {"bool", "cf"}]
    \cup [op : {"for_each"}, query : {<< >>}, fsel : {{}}, rkind : {"unit"}]

InitQuery ==
    /\ objs \in InjSeqs(ObjNames, 1, MaxObjs)
    /\ platform \in {"unix", "windows"}
    /\ \E in \in QueryInputs(Len(objs)) :
        /\ op = in.op
        /\ query = in.query
        /\ fsel = in.fsel
        /\ rkind = in.rkind
    /\ pc = "run"
    /\ cursor = 1
    /\ raw = 0
    /\ visited = << >>
    /\ lookups = << >>
    /\ osFailed = FALSE
    /\ result = [tag |-> "Running", val |-> None]
    /\ fcalls = << >>
    /\ snap = "none"
    /\ iterEntry = 0
    /\ closed = 0
    /\ refs = << >>
    /\ handles = << >>
    /\ arg = << >>
    /\ out = << >>
    /\ kind = "tuple"
    /\ map0 = << >>
    /\ mapU = << >>
    /\ mapW = << >>
    /\ wi = 1
    /\ wj = 1
    /\ resU = "Running"
    /\ resW = "Running"
    /\ writesU = << >>
    /\ writesW = << >>
    /\ fullOps = 0

NextQuery ==
    \/ unix_map_by_name_visit
    \/ unix_find_map_visit
    \/ unix_for_each_visit
    \/ unix_query_return
    \/ windows_map_by_name
    \/ windows_snapshot_new
    \/ windows_find_map_next
    \/ windows_for_each_next
    \/ windows_iter_end

SpecQuery == InitQuery /\ [][NextQuery]_vars

\* ------------------------------------------------- Symbols and Library
\* The most Symbols values handed out in one run.
MaxHandles == 2

\* dlopen(name, RTLD_LAZY | RTLD_NOLOAD) succeeding on object o, and
\* GetModuleHandleExA without the UNCHANGED_REFCOUNT flag succeeding on the
\* module o: the loader takes one more reference on o.
LoaderAddRef(r, o) == [r EXCEPT ![o] = @ + 1]

\* dlclose(handle of o) and FreeLibrary(module o): one reference given back.
LoaderRelease(r, o) == [r EXCEPT ![o] = @ - 1]

\* Symbols dropped without a dlclose call.
Symbols_drop_leaks(r, h) == r

\* unix/library.rs: Drop for Symbols: dlclose(self.handle).
Symbols_drop(r, h) == LoaderRelease(r, h.obj)

\* unix/library.rs: Library::new(object, symbols): the Symbols value is moved
\* into the Library, no loader call is made.
Library_new(o, h) == [obj |-> h.obj, st |-> "library"]

\* windows/library.rs: Drop for OwnedModule: FreeLibrary(self.0).
OwnedModule_drop(r, h) == LoaderRelease(r, h.obj)

\* unix Object::symbols: Symbols::open(self.name()); a dlopen failure panics.
unix_Object_symbols ==
    /\ pc = "run" /\ platform = "unix"
    /\ Len(handles) < MaxHandles
    /\ \E o \in DOMAIN objs : \E opened \in BOOLEAN :
        IF opened
        THEN /\ refs' = LoaderAddRef(refs, o)
             /\ handles' = Append(handles, [obj |-> o, st |-> "symbols"])
             /\ pc' = pc
        ELSE /\ pc' = "panic"
             /\ UNCHANGED << refs, handles >>
    /\ UNCHANGED << objs, cursor, raw, visited, lookups, osFailed, fillVars,
                    queryVars, closed, pureVars >>

\* unix Object::library(symbols): Library::new(self.0, symbols), for any
\* object and any live Symbols value.
unix_Object_library ==
    /\ pc = "run" /\ platform = "unix"
    /\ \E o \in DOMAIN objs : \E k \in DOMAIN handles :
        /\ handles[k].st = "symbols"
        /\ handles' = [handles EXCEPT ![k] = Library_new(o, handles[k])]
    /\ UNCHANGED << objs, pc, cursor, raw, visited, lookups, osFailed, fillVars,
                    queryVars, closed, pureVars, refs >>

\* unix: a Symbols value goes out of scope.
unix_Symbols_drop ==
    /\ platform = "unix"
    /\ \E k \in DOMAIN handles :
        /\ handles[k].st = "symbols"
        /\ refs' = Symbols_drop(refs, handles[k])
        /\ handles' = [handles EXCEPT ![k].st = "symbols_dropped"]
    /\ UNCHANGED << objs, pc, cursor, raw, visited, lookups, osFailed, fillVars,
                    queryVars, closed, pureVars >>

\* unix: a Library goes out of scope; its symbols field is dropped with it.
unix_Library_drop ==
    /\ platform = "unix"
    /\ \E k \in DOMAIN handles :
        /\ handles[k].st = "library"
        /\ refs' = Symbols_drop(refs, handles[k])
        /\ handles' = [handles EXCEPT ![k].st = "library_dropped"]
    /\ UNCHANGED << objs, pc, cursor, raw, visited, lookups, osFailed, fillVars,
                    queryVars, closed, pureVars >>

\* windows Object::symbols: the unit value Symbols, no loader call.
windows_Object_symbols ==
    /\ pc = "run" /\ platform = "windows"
    /\ Len(handles) < MaxHandles
    /\ \E o \in DOMAIN objs :
        handles' = Append(handles, [obj |-> o, st |-> "symbols"])
    /\ UNCHANGED << objs, pc, cursor, raw, visited, lookups, osFailed, fillVars,
                    queryVars, closed, pureVars, refs >>

\* windows Object::library(symbols): the Symbols value is consumed and
\* OwnedModule::from_module(&self.inner) takes a reference on this object's
\* module; a GetModuleHandleExA failure panics.
windows_Object_library ==
    /\ pc = "run" /\ platform = "windows"
    /\ \E o \in DOMAIN objs : \E k \in DOMAIN handles : \E got \in BOOLEAN :
        /\ handles[k].st = "symbols"
        /\ IF got
           THEN /\ refs' = LoaderAddRef(refs, o)
                /\ handles' = [handles EXCEPT ![k] = [obj |-> o, st |-> "library"]]
                /\ pc' = pc
           ELSE /\ handles' = [handles EXCEPT ![k].st = "symbols_dropped"]
                /\ pc' = "panic"
                /\ refs' = refs
    /\ UNCHANGED << objs, cursor, raw, visited, lookups, osFailed, fillVars,
                    queryVars, closed, pureVars >>

\* windows: a Symbols value goes out of scope; it owns nothing.
windows_Symbols_drop ==
    /\ platform = "windows"
    /\ \E k \in DOMAIN handles :
        /\ handles[k].st = "symbols"
        /\ handles' = [handles EXCEPT ![k].st = "symbols_dropped"]
    /\ UNCHANGED << objs, pc, cursor, raw, visited, lookups, osFailed, fillVars,
                    queryVars, closed, pureVars, refs >>

\* windows: a Library (OwnedModule) goes out of scope.
windows_Library_drop ==
    /\ platform = "windows"
    /\ \E k \in DOMAIN handles :
        /\ handles[k].st = "library"
        /\ refs' = OwnedModule_drop(refs, handles[k])
        /\ handles' = [handles EXCEPT ![k].st = "library_dropped"]
    /\ UNCHANGED << objs, pc, cursor, raw, visited, lookups, osFailed, fillVars,
                    queryVars, closed, pureVars >>

\* A process with its loaded objects, before any handle is obtained; refs
\* counts the references taken above each object's initial count.
InitLib ==
    /\ objs \in InjSeqs(ObjNames, 1, MaxObjs)
    /\ platform \in {"unix", "windows"}
    /\ refs = [o \in DOMAIN objs |-> 0]
    /\ handles = << >>
    /\ pc = "run"
    /\ op = "library"
    /\ query = << >>
    /\ fsel = {}
    /\ rkind = "unit"
    /\ cursor = 1
    /\ raw = 0
    /\ visited = << >>
    /\ lookups = << >>
    /\ osFailed = FALSE
    /\ result = [tag |-> "Running", val |-> None]
    /\ fcalls = << >>
    /\ snap = "none"
    /\ iterEntry = 0
    /\ closed = 0
    /\ kind = "tuple"
    /\ map0 = << >>
    /\ mapU = << >>
    /\ mapW = << >>
    /\ wi = 1
    /\ wj = 1
    /\ resU = "Running"
    /\ resW = "Running"
    /\ writesU = << >>
    /\ writesW = << >>
    /\ fullOps = 0
    /\ arg = << >>
    /\ out = << >>

NextLib ==
    \/ unix_Object_symbols
    \/ unix_Object_library
    \/ unix_Symbols_drop
    \/ unix_Library_drop
    \/ windows_Object_symbols
    \/ windows_Object_library
    \/ windows_Symbols_drop
    \/ windows_Library_drop

SpecLib == InitLib /\ [][NextLib]_vars

\* ------------------------------------------------- pure functions
\* No Objects operation is in progress: the state of the traversal, of the
\* maps, of the snapshot and of the handles is at rest.
NoObjects ==
    /\ objs = << >>
    /\ query = << >>
    /\ fsel = {}
    /\ rkind = "unit"
    /\ cursor = 1
    /\ raw = 0
    /\ visited = << >>
    /\ lookups = << >>
    /\ osFailed = FALSE
    /\ result = [tag |-> "Running", val |-> None]
    /\ fcalls = << >>
    /\ snap = "none"
    /\ iterEntry = 0
    /\ closed = 0
    /\ kind = "tuple"
    /\ map0 = << >>
    /\ mapU = << >>
    /\ mapW = << >>
    /\ wi = 1
    /\ wj = 1
    /\ resU = "Running"
    /\ resW = "Running"
    /\ writesU = << >>
    /\ writesW = << >>
    /\ fullOps = 0
    /\ refs = << >>
    /\ handles = << >>

\* The longest byte string given to to_nice_name.
MaxNameLen == 4
\* The bytes of those strings: the separator, the dot and two other bytes.
NameBytes == {MAIN_SEPARATOR, DOT, "a", "b"}
NameStrings == UNION { [1..n -> NameBytes] : n \in 0..MaxNameLen }

\* to_nice_name is applied to the argument, then to its own result.
to_nice_name_call ==
    /\ pc = "input" /\ op = "to_nice_name"
    /\ Len(out) < 2
    /\ out' = Append(out, to_nice_name(IF out = << >> THEN arg ELSE out[Len(out)]))
    /\ UNCHANGED << objs, pc, cursor, raw, visited, lookups, osFailed, fillVars,
                    queryVars, closed, libVars, arg >>

InitName ==
    /\ NoObjects
    /\ platform = "unix"
    /\ op = "to_nice_name"
    /\ pc = "input"
    /\ arg \in NameStrings
    /\ out = << >>

NextName == to_nice_name_call

SpecName == InitName /\ [][NextName]_vars

\* What a caller observes of a map of (K, Option<V>) entries: is_full(), the
\* is_written() of each entry, and (history) the entries that were seen
\* written at some earlier time.
Observe(entries, was) ==
    [full |-> is_full(entries),
     written |-> [i \in DOMAIN entries |-> is_written(entries[i])],
     was |-> was]

\* write(object) is called on an entry of the map, written or not, and the
\* map is observed again.
write_call ==
    /\ pc = "input" /\ op = "map"
    /\ \E i \in DOMAIN arg : \E o \in 1..MaxObjs :
        /\ arg' = [arg EXCEPT ![i] = write(arg[i], o)]
        /\ out' = Observe(arg', out.was \cup {j \in DOMAIN arg : is_written(arg[j])})
    /\ UNCHANGED << objs, pc, cursor, raw, visited, lookups, osFailed, fillVars,
                    queryVars, closed, libVars >>

\* A map of 0..MaxSlots entries, each unwritten or written earlier.
InitMap ==
    /\ NoObjects
    /\ platform = "unix"
    /\ op = "map"
    /\ pc = "input"
    /\ arg \in UNION { [1..n -> Entries("tuple")] : n \in 0..MaxSlots }
    /\ out = Observe(arg, {})

NextMap == write_call

SpecMap == InitMap /\ [][NextMap]_vars

\* Candidate names of an entry that keeps the default name_matches: bare
\* names and a name with an extension.
MatchNames == CandNames \cup { << "a", ".", "b" >> }

\* The default name_matches of an entry is applied to an object name.
name_matches_call ==
    /\ pc = "input" /\ op = "name_matches"
    /\ out' = [matches |-> name_matches("default", arg.entry, arg.name)]
    /\ pc' = "output"
    /\ UNCHANGED << objs, cursor, raw, visited, lookups, osFailed, fillVars,
                    queryVars, closed, libVars, arg >>

InitMatch ==
    /\ NoObjects
    /\ platform = "unix"
    /\ op = "name_matches"
    /\ pc = "input"
    /\ arg \in [entry : [names : InjSeqs(MatchNames, 1, MaxCands), val : {None}],
                 name : NameStrings]
    /\ out = << >>

NextMatch == name_matches_call

SpecMatch == InitMatch /\ [][NextMatch]_vars

\* The flags word is modelled by its low FlagBits bits: the three
\* permission bits and FlagBits - 3 further bits.
FlagBits == 4
FlagWords == 0..(2^FlagBits - 1)

\* libc: the permission bits of an ELF segment's p_flags.
PF_X == 1
PF_W == 2
PF_R == 4

\* The | and & of two flag words, bit by bit.
RECURSIVE word_or(_, _)
word_or(a, b) ==
    IF a = 0 THEN b
    ELSE IF b = 0 THEN a
    ELSE (IF a % 2 = 1 \/ b % 2 = 1 THEN 1 ELSE 0) + 2 * word_or(a \div 2, b \div 2)

RECURSIVE word_and(_, _)
word_and(a, b) ==
    IF a = 0 \/ b = 0 THEN 0
    ELSE (IF a % 2 = 1 /\ b % 2 = 1 THEN 1 ELSE 0) + 2 * word_and(a \div 2, b \div 2)

\* unix SegmentFlags::EXECUTABLE, WRITABLE, READABLE.
EXECUTABLE == PF_X
WRITABLE == PF_W
READABLE == PF_R

\* unix SegmentFlags::union: Self(self.0 | other.0).
union(self, other) == word_or(self, other)

\* SegmentFlags::is testing that self has every bit of other.
is_superset(self, other) == word_and(self, other) = other

\* unix SegmentFlags::is: self.0 == other.0.
is(self, other) == self = other

\* unix SegmentFlags::contains: (self.0 & other.0) != 0.
contains(self, other) == word_and(self, other) # 0

\* unix: impl BitAnd for SegmentFlags (Output = bool): self.contains(&rhs).
bitand(self, rhs) == contains(self, rhs)

\* unix: impl BitOr for SegmentFlags (Output = Self): self.union(rhs).
bitor(self, rhs) == union(self, rhs)

\* unix SegmentFlagsImpl for SegmentFlags.
unix_has_x(self) == contains(self, EXECUTABLE)
unix_has_r(self) == contains(self, READABLE)
\* has_w testing the READABLE bit.
unix_has_w_tests_readable(self) == contains(self, READABLE)
unix_has_w(self) == contains(self, WRITABLE)
unix_is_rx(self) == is(self, union(READABLE, EXECUTABLE))

\* windows SegmentFlagsImpl for the unit struct SegmentFlags.
windows_has_x(self) == TRUE
windows_has_r(self) == TRUE
windows_has_w(self) == FALSE
windows_is_rx(self) == TRUE

\* lib.rs: SegmentFlags::has_x, has_r, has_w, is_rx on platform p.
has_x(p, self) == IF p = "unix" THEN unix_has_x(self) ELSE windows_has_x(self)
has_r(p, self) == IF p = "unix" THEN unix_has_r(self) ELSE windows_has_r(self)
has_w(p, self) == IF p = "unix" THEN unix_has_w(self) ELSE windows_has_w(self)
is_rx(p, self) == IF p = "unix" THEN unix_is_rx(self) ELSE windows_is_rx(self)

\* The predicates of SegmentFlags are evaluated on the value a, and on unix
\* the binary operations and the operators | and & on a, b and c.
SegmentFlags_call ==
    /\ pc = "input" /\ op = "flags"
    /\ out' = [has_x |-> has_x(platform, arg.a),
               has_r |-> has_r(platform, arg.a),
               has_w |-> has_w(platform, arg.a),
               is_rx |-> is_rx(platform, arg.a),
               union |-> IF platform = "unix" THEN union(arg.a, arg.b) ELSE arg.a,
               contains |-> IF platform = "unix" THEN contains(arg.a, arg.b) ELSE TRUE,
               or_ab_c |-> IF platform = "unix"
                           THEN bitor(bitor(arg.a, arg.b), arg.c) ELSE arg.a,
               or_a_bc |-> IF platform = "unix"
                           THEN bitor(arg.a, bitor(arg.b, arg.c)) ELSE arg.a,
               and_ab |-> IF platform = "unix" THEN bitand(arg.a, arg.b) ELSE TRUE]
    /\ pc' = "output"
    /\ UNCHANGED << objs, cursor, raw, visited, lookups, osFailed, fillVars,
                    queryVars, closed, libVars, arg >>

\* On unix any flags word can be met (SegmentFlags wraps p_flags); on
\* windows SegmentFlags is a unit struct with one value.
InitFlags ==
    /\ NoObjects
    /\ platform \in {"unix", "windows"}
    /\ op = "flags"
    /\ pc = "input"
    /\ arg \in IF platform = "unix"
                THEN [a : FlagWords, b : FlagWords, c : FlagWords]
                ELSE {[a |-> << >>, b |-> << >>, c |-> << >>]}
    /\ out = << >>

NextFlags == SegmentFlags_call

SpecFlags == InitFlags /\ [][NextFlags]_vars

\* ------------------------------------------------ tlhelp32.rs: Modules
\* The iterators taken from one snapshot, and the next() calls made on an
\* iterator after it returned None.
MaxIters == 2
MaxNones == 2

\* ModuleSnapshot::iter: a new iterator holding a copy of first_entry. No
\* platform call is made, so the snapshot keeps its position.
ModuleSnapshot_iter ==
    /\ pc \in {"snapshot", "iter"} /\ op = "iter"
    /\ out.iters < MaxIters
    /\ iterEntry' = 1
    /\ visited' = << >>
    /\ out' = [out EXCEPT !.iters = @ + 1, !.nones = 0]
    /\ pc' = "iter"
    /\ UNCHANGED << objs, cursor, raw, lookups, osFailed, fillVars, platform, op, query, fsel, rkind,
                    result, fcalls, snap,
                    closed, libVars, arg >>

\* Modules::next on the current iterator; visited lists what it has yielded,
\* out.late counts platform calls made after the platform reported the end.
Modules_next_call ==
    /\ pc = "iter" /\ op = "iter"
    /\ out.nones < MaxNones
    /\ LET n == Modules_next(objs, iterEntry, cursor)
       IN  /\ iterEntry' = n.entry
           /\ cursor' = n.pos
           /\ visited' = IF n.item # 0 THEN Append(visited, n.item) ELSE visited
           /\ out' = [out EXCEPT
                        !.nones = IF n.item = 0 THEN @ + 1 ELSE @,
                        !.late = IF iterEntry = 0 /\ n.called THEN @ + 1 ELSE @]
    /\ UNCHANGED << objs, pc, raw, lookups, osFailed, fillVars, platform, op, query, fsel, rkind,
                    result, fcalls, snap,
                    closed, libVars, arg >>

\* The state after ModuleSnapshot::new succeeded: Module32First has put the
\* snapshot at its first entry, which first_entry holds.
InitIter ==
    /\ objs \in InjSeqs(ObjNames, 1, MaxObjs)
    /\ platform = "windows"
    /\ op = "iter"
    /\ pc = "snapshot"
    /\ snap = "open"
    /\ cursor = 1
    /\ iterEntry = 0
    /\ arg = << >>
    /\ out = [iters |-> 0, nones |-> 0, late |-> 0]
    /\ query = << >>
    /\ fsel = {}
    /\ rkind = "unit"
    /\ raw = 0
    /\ visited = << >>
    /\ lookups = << >>
    /\ osFailed = FALSE
    /\ result = [tag |-> "Running", val |-> None]
    /\ fcalls = << >>
    /\ closed = 0
    /\ kind = "tuple"
    /\ map0 = << >>
    /\ mapU = << >>
    /\ mapW = << >>
    /\ wi = 1
    /\ wj = 1
    /\ resU = "Running"
    /\ resW = "Running"
    /\ writesU = << >>
    /\ writesW = << >>
    /\ fullOps = 0
    /\ refs = << >>
    /\ handles = << >>

NextIter ==
    \/ ModuleSnapshot_iter
    \/ Modules_next_call

SpecIter == InitIter /\ [][NextIter]_vars

\* --------------------------------------- os/unix: ForEachObjectResult
\* The largest magnitude of a NonZero<c_int> a closure returns.
MaxRaw == 2

\* RawFeor = Option<NonZero<c_int>>.
RawNone == [some |-> FALSE, get |-> 0]
RawSome(i) == [some |-> TRUE, get |-> i]
NonZeroInts == ((0 - MaxRaw)..MaxRaw) \ {0}
RawFeors == {RawNone} \cup { RawSome(i) : i \in NonZeroInts }

\* NonZero::new on the c_int dl_iterate_phdr returned.
RawFeorInner_new(c) == IF c # 0 THEN RawSome(c) ELSE RawNone

\* impl ForEachObjectResult for ().
unit_from_raw(r) == "()"
unit_into_raw(x) == RawNone

\* impl ForEachObjectResult for RawFeor.
RawFeor_from_raw(r) == r
RawFeor_into_raw(x) == x

\* bool::from_raw answering raw.is_none().
bool_from_raw_is_none(r) == ~r.some

\* impl ForEachObjectResult for bool.
bool_from_raw(r) == r.some
bool_into_raw(x) == IF x THEN RawSome(1) ELSE RawNone

\* impl ForEachObjectResult for ControlFlow<()>.
ControlFlow_from_raw(r) == IF bool_from_raw(r) THEN "Break" ELSE "Continue"
ControlFlow_into_raw(x) == bool_into_raw(x = "Break")

\* R::from_raw and R::into_raw for the result type rk.
from_raw(rk, r) ==
    CASE rk = "unit" -> unit_from_raw(r)
      [] rk = "raw"  -> RawFeor_from_raw(r)
      [] rk = "bool" -> bool_from_raw(r)
      [] rk = "cf"   -> ControlFlow_from_raw(r)

into_raw(rk, x) ==
    CASE rk = "unit" -> unit_into_raw(x)
      [] rk = "raw"  -> RawFeor_into_raw(x)
      [] rk = "bool" -> bool_into_raw(x)
      [] rk = "cf"   -> ControlFlow_into_raw(x)

\* The extern "C" callback handed to dl_iterate_phdr, given the closure's
\* result x: the c_int it returns to the platform.
for_each_object_callback(rk, x) ==
    LET r == into_raw(rk, x) IN IF r.some THEN r.get ELSE 0

\* The values of a result type.
FeorValues(rk) ==
    CASE rk = "unit" -> {"()"}
      [] rk = "raw"  -> RawFeors
      [] rk = "bool" -> BOOLEAN
      [] rk = "cf"   -> {"Break", "Continue"}

\* dl_iterate_phdr invokes the callback on the next object; arg[k] is what
\* the closure returns for object k.
for_each_object_visit ==
    /\ pc = "iterate" /\ op = "for_each_object"
    /\ raw = 0
    /\ cursor <= Len(arg)
    /\ raw' = for_each_object_callback(rkind, arg[cursor])
    /\ visited' = Append(visited, cursor)
    /\ cursor' = cursor + 1
    /\ UNCHANGED << objs, pc, lookups, osFailed, fillVars, queryVars, closed,
                    libVars, pureVars >>

\* dl_iterate_phdr returns the last callback's value; for_each_object returns
\* R::from_raw(NonZero::new(that value)).
for_each_object_return ==
    /\ pc = "iterate" /\ op = "for_each_object"
    /\ (raw # 0 \/ cursor > Len(arg))
    /\ out' = << from_raw(rkind, RawFeorInner_new(raw)) >>
    /\ pc' = "returned"
    /\ UNCHANGED << objs, cursor, raw, visited, lookups, osFailed, fillVars,
                    queryVars, closed, libVars, arg >>

InitFeor ==
    /\ objs = << >>
    /\ query = << >>
    /\ fsel = {}
    /\ cursor = 1
    /\ raw = 0
    /\ visited = << >>
    /\ lookups = << >>
    /\ osFailed = FALSE
    /\ result = [tag |-> "Running", val |-> None]
    /\ fcalls = << >>
    /\ snap = "none"
    /\ iterEntry = 0
    /\ closed = 0
    /\ kind = "tuple"
    /\ map0 = << >>
    /\ mapU = << >>
    /\ mapW = << >>
    /\ wi = 1
    /\ wj = 1
    /\ resU = "Running"
    /\ resW = "Running"
    /\ writesU = << >>
    /\ writesW = << >>
    /\ fullOps = 0
    /\ refs = << >>
    /\ handles = << >>
    /\ platform = "unix"
    /\ op = "for_each_object"
    /\ pc = "iterate"
    /\ \E rk \in {"unit", "raw", "bool", "cf"} :
        /\ rkind = rk
        /\ arg \in UNION { [1..n -> FeorValues(rk)] : n \in 1..MaxObjs }
    /\ out = << >>

NextFeor ==
    \/ for_each_object_visit
    \/ for_each_object_return

SpecFeor == InitFeor /\ [][NextFeor]_vars

\* ============================================================= claims
\* A slot's candidates match an object's raw name the way the traversal
\* strategy compares them for this kind of entry.
PushMatches(i, o) ==
    IF kind = "tuple"
    THEN map0[i].names[1] = objs[o]
    ELSE \E n \in DOMAIN map0[i].names :
            \/ map0[i].names[n] = objs[o]
            \/ map0[i].names[n] = to_nice_name(objs[o])

\* A candidate of the slot names a loaded object (the named lookup resolves).
PullResolves(i) ==
    \E n \in DOMAIN map0[i].names : \E o \in DOMAIN objs : objs[o] = map0[i].names[n]

\* C1: batch monotonicity: in one fill_map pass, under either strategy,
\* write is invoked on each slot at most once and never on a slot whose
\* is_written() is already true (slots written before the call included).
C1_WriteAtMostOnce ==
    \A i \in DOMAIN map0 :
        /\ Len(writesU[i]) <= 1
        /\ Len(writesW[i]) <= 1
        /\ \A k \in DOMAIN writesU[i] : ~writesU[i][k].prev
        /\ \A k \in DOMAIN writesW[i] : ~writesW[i][k].prev

\* C2: once every slot is written, fill_map performs no further platform
\* operation: the traversal callback is invoked on no object and no named
\* lookup is issued while the map is full (an already full map included).
C2_NoOperationOnFullMap ==
    fullOps = 0

\* C3: strategy equivalence: for the same loaded objects and the same map,
\* the traversal strategy and the lookup strategy (when it returns Ok) end
\* with the same slots written and the same object in each written slot.
C3_SameAssignments ==
    (pc = "done" /\ resW = "Ok") => mapU = mapW

\* C4: first-match content: after a traversal pass, every slot written in
\* the pass holds the first object, in traversal order, that matched one of
\* its candidates; a later matching object never replaces it.
C4_HoldsFirstMatch ==
    pc # "push" =>
        \A i \in DOMAIN map0 :
            writesU[i] # << >> =>
                /\ mapU[i].val.some
                /\ mapU[i].val.obj \in DOMAIN objs
                /\ PushMatches(i, mapU[i].val.obj)
                /\ \A o \in 1..(mapU[i].val.obj - 1) : ~PushMatches(i, o)

\* C5: not-found for a slot is not a batch failure: under both strategies a
\* slot none of whose candidates matches a loaded object is left as it was
\* (write is never invoked on it), the call still returns Ok unless a
\* platform call failed, and the other slots are still processed: the
\* traversal visits every object while such a slot is unwritten and writes
\* the slots that match, the lookup strategy reaches every slot.
C5_NotFoundIsNotFailure ==
    /\ \A i \in DOMAIN map0 :
        /\ (\A o \in DOMAIN objs : ~PushMatches(i, o))
              => (writesU[i] = << >> /\ mapU[i] = map0[i])
        /\ ~PullResolves(i) => (writesW[i] = << >> /\ mapW[i] = map0[i])
    /\ pc # "push" =>
        /\ resU = "Ok"
        /\ (\E i \in DOMAIN map0 :
                ~map0[i].val.some /\ \A o \in DOMAIN objs : ~PushMatches(i, o))
              => /\ Len(visited) = Len(objs)
                 /\ \A j \in DOMAIN map0 :
                       (\E o \in DOMAIN objs : PushMatches(j, o)) => writesU[j] # << >>
    /\ (pc = "done" /\ ~osFailed) =>
        /\ resW = "Ok"
        /\ wi = Len(map0) + 1
        /\ \A j \in DOMAIN map0 :
              /\ \E k \in DOMAIN lookups : lookups[k].slot = j
              /\ PullResolves(j) => writesW[j] # << >>

\* C5 witness: both passes are over, the lookup pass returned Ok, one slot
\* that nothing matches was left unwritten, and a later slot was written by
\* both strategies.
C5_Witness ==
    /\ pc = "done"
    /\ resW = "Ok"
    /\ \E i, j \in DOMAIN map0 :
        /\ i < j
        /\ ~map0[i].val.some
        /\ \A o \in DOMAIN objs : ~PushMatches(i, o)
        /\ ~PullResolves(i)
        /\ ~mapU[i].val.some /\ ~mapW[i].val.some
        /\ ~map0[j].val.some
        /\ writesU[j] # << >> /\ writesW[j] # << >>

\* ------------------------------------------------------------- query claims
\* The smallest element of a non-empty set of object positions.
First(S) == CHOOSE o \in S : \A q \in S : o <= q

\* The objects whose raw name the code accepts for the query: the raw name
\* equals the query, or the nice name of the object's raw name equals it.
NameHits ==
    { o \in DOMAIN objs : objs[o] = query \/ to_nice_name(objs[o]) = query }

\* The objects the 4.3 sentence accepts: the raw name equals the query or
\* equals the normalized query.
NameHitsQueryNormalized ==
    { o \in DOMAIN objs : objs[o] = query \/ objs[o] = to_nice_name(query) }

\* The objects a named lookup of the query resolves to.
LookupHits == { o \in DOMAIN objs : objs[o] = query }

UnixMapByNameDone == pc = "done" /\ platform = "unix" /\ op = "map_by_name"

\* C6 (as stated): unix map_by_name applies f to the first visited object
\* whose raw name equals the query or equals normalize(query), and returns
\* not-found exactly when no loaded object satisfies that.
C6_Original ==
    UnixMapByNameDone =>
        IF NameHitsQueryNormalized = {}
        THEN result = [tag |-> "Ok", val |-> None] /\ fcalls = << >>
        ELSE /\ result = [tag |-> "Ok", val |-> Some(First(NameHitsQueryNormalized))]
             /\ fcalls = << First(NameHitsQueryNormalized) >>

\* C6 (amended): unix map_by_name applies f to the first visited object, in
\* traversal order, whose raw name equals the query or whose normalized raw
\* name equals the query (the object's name is normalized, not the query),
\* and returns f's result as found; it returns not-found exactly when no
\* loaded object satisfies that.
C6_MapByNameFirstMatch ==
    UnixMapByNameDone =>
        IF NameHits = {}
        THEN result = [tag |-> "Ok", val |-> None] /\ fcalls = << >>
        ELSE /\ result = [tag |-> "Ok", val |-> Some(First(NameHits))]
             /\ fcalls = << First(NameHits) >>

\* C6 witness: the call found an object through its nice name only, after
\* visiting an object that does not match, with a later match left behind.
C6_Witness ==
    /\ UnixMapByNameDone
    /\ result.tag = "Ok" /\ result.val.some
    /\ result.val.obj > 1
    /\ objs[result.val.obj] # query
    /\ to_nice_name(objs[result.val.obj]) = query
    /\ \E o \in DOMAIN objs : o > result.val.obj /\ objs[o] = query

\* C7: not-found is not an error: when no loaded object matches the name
\* (under the traversal platform's name policy, resp. the named lookup),
\* map_by_name returns Ok(None) and f is not invoked.
C7_NotFoundIsOkNone ==
    (pc = "done" /\ op = "map_by_name"
        /\ (IF platform = "unix" THEN NameHits = {} ELSE LookupHits = {}))
    => (result = [tag |-> "Ok", val |-> None] /\ fcalls = << >>)

\* C7 witness: a named lookup of a name no loaded module has was issued and
\* the call returned Ok(None).
C7_Witness ==
    /\ pc = "done" /\ op = "map_by_name" /\ platform = "windows"
    /\ LookupHits = {}
    /\ Len(lookups) = 1
    /\ Len(objs) >= 2
    /\ result = [tag |-> "Ok", val |-> None]

\* C8: unix map_by_name stops the traversal at the first match: the callback
\* returns a nonzero value to the traversal primitive on a match, objects are
\* visited in order, none after a matching one; f is invoked at most once,
\* and exactly once iff some loaded object matches.
C8_StopsAtFirstMatch ==
    (platform = "unix" /\ op = "map_by_name") =>
        /\ \A k \in DOMAIN visited : visited[k] = k
        /\ \A k \in DOMAIN visited : \A j \in 1..(k-1) : visited[j] \notin NameHits
        /\ Len(fcalls) <= 1
        /\ (raw # 0 <=> (visited # << >> /\ visited[Len(visited)] \in NameHits))
        /\ pc = "done" =>
            /\ (Len(fcalls) = 1 <=> NameHits # {})
            /\ NameHits # {} => Len(visited) = First(NameHits)
            /\ NameHits = {} => Len(visited) = Len(objs)

\* C8 witness: the call returned after f ran on a match that is not the last
\* loaded object, and the objects after it were not visited.
C8_Witness ==
    /\ UnixMapByNameDone
    /\ Len(fcalls) = 1
    /\ fcalls[1] > 1
    /\ Len(visited) = fcalls[1]
    /\ Len(visited) < Len(objs)

\* C9: find_map invokes f on the loaded objects one by one in enumeration
\* order until f first returns a present value; that value is the result, f
\* is invoked on no later object, and the result is absent iff f returned
\* absent on every loaded object (the enumeration itself having succeeded).
C9_FindMapFirstPresent ==
    op = "find_map" =>
        /\ \A k \in DOMAIN fcalls : fcalls[k] = k
        /\ \A k \in DOMAIN fcalls : \A j \in 1..(k-1) : fcalls[j] \notin fsel
        /\ (pc = "done" /\ platform = "unix") => result.tag = "Ok"
        /\ (pc = "done" /\ ~osFailed) => result.tag = "Ok"
        /\ (pc = "done" /\ result.tag = "Ok") =>
            /\ fsel # {} =>
                /\ result.val = Some(First(fsel))
                /\ Len(fcalls) = First(fsel)
            /\ fsel = {} =>
                /\ result.val = None
                /\ Len(fcalls) = Len(objs)

\* C9 witness: find_map returned the value f produced on an object that is
\* neither the first nor the last, another later object being selected too.
C9_Witness ==
    /\ pc = "done" /\ op = "find_map"
    /\ result.tag = "Ok" /\ result.val.some
    /\ result.val.obj > 1
    /\ Len(fcalls) = result.val.obj
    /\ \E o \in fsel : o > result.val.obj

\* The objects on which the for_each callback gives a stop signal: bool true
\* or ControlFlow::Break; a callback returning () gives none.
StopAt == IF rkind = "unit" THEN {} ELSE fsel

\* C10: for_each invokes f exactly once on every loaded object, in
\* enumeration order, as long as f returns a continue signal; at the first
\* stop signal the traversal halts and f is invoked on no later object; a
\* callback returning () never stops it (the enumeration having succeeded).
C10_ForEachUntilStop ==
    op = "for_each" =>
        /\ \A k \in DOMAIN fcalls : fcalls[k] = k
        /\ \A k \in DOMAIN fcalls : \A j \in 1..(k-1) : fcalls[j] \notin StopAt
        /\ (pc = "done" /\ ~osFailed) => result = [tag |-> "Ok", val |-> None]
        /\ (pc = "done" /\ result.tag = "Ok") =>
            /\ StopAt # {} => Len(fcalls) = First(StopAt)
            /\ StopAt = {} => Len(fcalls) = Len(objs)

\* C10 witness: a for_each with a ControlFlow callback halted at a Break on
\* an object that is neither the first nor the last.
C10_Witness ==
    /\ pc = "done" /\ op = "for_each" /\ rkind = "cf"
    /\ result.tag = "Ok"
    /\ Len(fcalls) > 1
    /\ Len(fcalls) < Len(objs)
    /\ fcalls[Len(fcalls)] \in fsel

\* The object a named lookup for the candidate resolves to, 0 when no loaded
\* object has that raw name.
Named(i, c) ==
    IF \E o \in DOMAIN objs : objs[o] = map0[i].names[c]
    THEN CHOOSE o \in DOMAIN objs : objs[o] = map0[i].names[c]
    ELSE 0

\* C11: failure propagation of the lookup strategy: when a named lookup fails
\* with a platform error, fill_map returns that failure at once: the failed
\* lookup is the last one issued (none for the remaining candidates of the
\* slot, none for later slots), the result is the failure, and every slot
\* written earlier in the call still holds the object it received while
\* every other slot is as it was before the call.
C11_FailurePropagates ==
    /\ \A k \in DOMAIN lookups :
          lookups[k].tag = "Err" => (k = Len(lookups) /\ resW = "Err" /\ pc = "done")
    /\ (pc = "done" /\ osFailed) => resW = "Err"
    /\ resW = "Err" =>
          /\ lookups # << >>
          /\ lookups[Len(lookups)].tag = "Err"
          /\ \A i \in DOMAIN map0 :
                IF writesW[i] # << >>
                THEN /\ i < lookups[Len(lookups)].slot
                     /\ Len(writesW[i]) = 1
                     /\ writesW[i][1].obj \in DOMAIN objs
                     /\ mapW[i] = [map0[i] EXCEPT !.val = Some(writesW[i][1].obj)]
                ELSE mapW[i] = map0[i]

\* C11 witness: the call failed on the first of two candidates of the second
\* slot after it had written the first slot.
C11_Witness ==
    /\ pc = "done" /\ resW = "Err"
    /\ Len(map0) = 2
    /\ writesW[1] # << >>
    /\ lookups[Len(lookups)] = [slot |-> 2, cand |-> 1, tag |-> "Err"]
    /\ Len(map0[2].names) = 2

\* C12 as stated: whatever the kind of entry, every write of the traversal
\* strategy is for an object whose raw name equals a candidate of the slot.
C12_Original ==
    pc # "push" =>
        \A i \in DOMAIN map0 : \A k \in DOMAIN writesU[i] :
            \E n \in DOMAIN map0[i].names :
                map0[i].names[n] = objs[writesU[i][k].obj]

\* C12: the traversal strategy writes a (K, Option<V>) slot only for an
\* object whose raw name is byte-equal to the slot's name, never because the
\* name equals only the nice form; a slot of an entry that keeps the default
\* name_matches is written only for an object whose raw name or whose nice
\* name is byte-equal to one of its candidates.
C12_ExactForTupleEntries ==
    \A i \in DOMAIN map0 : \A k \in DOMAIN writesU[i] :
        LET o == writesU[i][k].obj
        IN  IF kind = "tuple"
            THEN Len(map0[i].names) = 1 /\ objs[o] = map0[i].names[1]
            ELSE \E n \in DOMAIN map0[i].names :
                    \/ objs[o] = map0[i].names[n]
                    \/ to_nice_name(objs[o]) = map0[i].names[n]

\* C12 witness: a (K, Option<V>) slot was passed over for an earlier object
\* whose nice name, but not raw name, is the slot's name, and then written
\* for a later object whose raw name is.
C12_Witness ==
    /\ pc # "push" /\ kind = "tuple"
    /\ \E i \in DOMAIN map0 : \E o \in DOMAIN objs : \E e \in 1..(o - 1) :
          /\ ~map0[i].val.some
          /\ objs[e] # map0[i].names[1]
          /\ to_nice_name(objs[e]) = map0[i].names[1]
          /\ writesU[i] # << >>
          /\ writesU[i][1].obj = o
          /\ e \in {visited[v] : v \in DOMAIN visited}

\* C13: order of the lookup strategy: the lookups go through the slots in
\* slot order and, within a slot, through the candidates in priority order;
\* a lookup that resolves ends its slot (the slot is written with that
\* object, no later candidate is tried), a lookup that does not resolve is
\* followed by the next candidate, and after the last candidate or a write
\* the next slot is taken up whether or not the slot was written; a
\* successful call has taken up every slot.
C13_SlotThenCandidateOrder ==
    /\ \A k \in DOMAIN lookups :
          LET l == lookups[k]
          IN  /\ l.slot \in DOMAIN map0
              /\ l.cand \in DOMAIN map0[l.slot].names
              /\ IF k = 1
                 THEN l.slot = 1 /\ l.cand = 1
                 ELSE LET p == lookups[k - 1]
                      IN  IF p.tag = "None" /\ p.cand < Len(map0[p.slot].names)
                          THEN l.slot = p.slot /\ l.cand = p.cand + 1
                          ELSE p.tag # "Err" /\ l.slot = p.slot + 1 /\ l.cand = 1
              /\ (l.tag = "None") = (Named(l.slot, l.cand) = 0)
              /\ l.tag = "Some" =>
                    /\ writesW[l.slot] # << >>
                    /\ writesW[l.slot][1].obj = Named(l.slot, l.cand)
                    /\ mapW[l.slot].val = Some(Named(l.slot, l.cand))
    /\ \A i \in DOMAIN map0 :
          writesW[i] # << >> =>
              \E k \in DOMAIN lookups : lookups[k].slot = i /\ lookups[k].tag = "Some"
    /\ (pc = "done" /\ resW = "Ok") =>
          /\ lookups # << >>
          /\ lookups[Len(lookups)].slot = Len(map0)
          /\ \/ lookups[Len(lookups)].tag = "Some"
             \/ lookups[Len(lookups)].cand = Len(map0[Len(map0)].names)

\* C13 witness: both candidates of the first slot name loaded objects, the
\* first one resolved, the second one was never looked up, and the second
\* slot was taken up next.
C13_Witness ==
    /\ pc = "done" /\ resW = "Ok"
    /\ Len(map0) = 2
    /\ Len(map0[1].names) = 2
    /\ Named(1, 1) # 0 /\ Named(1, 2) # 0
    /\ Len(lookups) >= 2
    /\ lookups[1] = [slot |-> 1, cand |-> 1, tag |-> "Some"]
    /\ lookups[2].slot = 2

\* C15: on the snapshot platform, the snapshot handle that find_map or
\* for_each acquires is released exactly once on every exit path (the end of
\* the iteration, an early stop, a failure to retrieve the first entry): a
\* handle that was created has been closed by exactly one CloseHandle call
\* once the operation has returned, an open handle has not been closed yet,
\* and no CloseHandle call is made when no handle was created.
C15_SnapshotReleasedOnce ==
    (platform = "windows" /\ op \in {"find_map", "for_each"}) =>
        /\ closed = (IF snap = "closed" THEN 1 ELSE 0)
        /\ pc = "done" => snap # "open"
        /\ snap = "closed" => pc = "done"
        /\ (pc = "done" /\ snap = "none") => (result.tag = "Err" /\ visited = << >>)

\* C15 witness: the operation stopped early, before the last module, and
\* has returned with the snapshot handle closed once.
C15_Witness ==
    /\ platform = "windows" /\ op \in {"find_map", "for_each"}
    /\ pc = "done" /\ result.tag = "Ok"
    /\ visited # << >> /\ Len(visited) < Len(objs)
    /\ snap = "closed" /\ closed = 1

\* C20: map_by_name on the snapshot platform uses the direct named lookup
\* only: it issues exactly one named lookup, for the queried name, never
\* creates a module snapshot and never iterates the loaded modules; f is
\* applied to nothing but the module that lookup returned.
C20_DirectLookupOnly ==
    (platform = "windows" /\ op = "map_by_name") =>
        /\ snap = "none" /\ closed = 0 /\ iterEntry = 0
        /\ visited = << >>
        /\ Len(lookups) = (IF pc = "done" THEN 1 ELSE 0)
        /\ \A k \in DOMAIN lookups :
              (lookups[k].tag = "None") = (\A o \in DOMAIN objs : objs[o] # query)
        /\ \A k \in DOMAIN fcalls : objs[fcalls[k]] = query
        /\ Len(fcalls) <= 1
        /\ pc = "done" => (result.val.some = (fcalls # << >>))

\* C20 witness: the module of the queried name is not the first loaded
\* module, and the call has returned it after its one lookup.
C20_Witness ==
    /\ platform = "windows" /\ op = "map_by_name"
    /\ pc = "done" /\ result.tag = "Ok"
    /\ Len(lookups) = 1
    /\ fcalls # << >> /\ fcalls[1] > 1
    /\ result.val = Some(fcalls[1])

\* The live values that own a loader reference on object o: on unix every
\* Symbols and every Library, on windows every Library.
Owners(o) ==
    {k \in DOMAIN handles :
        /\ handles[k].obj = o
        /\ \/ handles[k].st = "library"
           \/ handles[k].st = "symbols" /\ platform = "unix"}

\* C14: round-trip ownership: after any sequence of symbols(), library()
\* and drops, the loader's reference count of each object exceeds its
\* initial value by exactly the number of live values that obtained a
\* loader handle on it: one reference per handle obtained, one release per
\* owner dropped, none added or lost by a promotion; so the count is never
\* below the initial value and is back at it once every value is dropped.
C14_RoundTripOwnership ==
    \A o \in DOMAIN refs :
        /\ refs[o] = Cardinality(Owners(o))
        /\ refs[o] >= 0
        /\ (\A k \in DOMAIN handles :
                handles[k].st \in {"symbols_dropped", "library_dropped"})
              => refs[o] = 0

\* C14 witness: two handles were obtained on one object, one was promoted
\* to a Library and dropped, the other dropped as Symbols, and the count is
\* back at its initial value.
C14_Witness ==
    /\ op = "library"
    /\ Len(handles) = 2
    /\ handles[1].obj = handles[2].obj
    /\ handles[1].st = "library_dropped"
    /\ handles[2].st = "symbols_dropped"
    /\ \A o \in DOMAIN refs : refs[o] = 0

\* C16: normalization idempotence: for every byte string x,
\* to_nice_name(to_nice_name(x)) = to_nice_name(x).
C16_NiceNameIdempotent ==
    (op = "to_nice_name" /\ Len(out) = 2) => out[2] = out[1]

\* C16 witness: a string with a directory and an extension was normalized
\* twice; the first application shortened it.
C16_Witness ==
    /\ op = "to_nice_name" /\ Len(out) = 2
    /\ \E i, j \in DOMAIN arg : i < j /\ arg[i] = MAIN_SEPARATOR /\ arg[j] = DOT
    /\ out[1] # arg /\ out[1] # << >>

\* r is the part of x after its last separator (x itself if it has none),
\* cut before the first '.' of that part (uncut if it has none).
IsNicePart(x, r) ==
    \E i \in 0..Len(x) : \E k \in i..Len(x) :
        /\ i = 0 \/ x[i] = "/"
        /\ \A j \in (i + 1)..Len(x) : x[j] # "/"
        /\ \A j \in (i + 1)..k : x[j] # "."
        /\ k = Len(x) \/ x[k + 1] = "."
        /\ r = SubSeq(x, i + 1, k)

\* C17: normalization correctness: to_nice_name returns the part after the
\* last path separator, cut before the first '.' of that part; the names
\* "/a/b/libfoo.so", "libfoo.so", "libfoo" and "/a/b/libfoo" all normalize to
\* "libfoo", and a '.' in a directory component does not shorten the result.
C17_NiceNameCorrect ==
    /\ (op = "to_nice_name" /\ out # << >>) => IsNicePart(arg, out[1])
    /\ LET libfoo == << "l", "i", "b", "f", "o", "o" >>
           so == << ".", "s", "o" >>
           dir == << "/", "a", "/", "b", "/" >>
       IN  /\ to_nice_name(dir \o libfoo \o so) = libfoo
           /\ to_nice_name(libfoo \o so) = libfoo
           /\ to_nice_name(libfoo) = libfoo
           /\ to_nice_name(dir \o libfoo) = libfoo
           /\ to_nice_name(<< "/", "a", ".", "d", "/" >> \o libfoo \o so) = libfoo

\* C17 witness: a name with a '.' in its directory component and none in
\* its last component was normalized to the whole last component.
C17_Witness ==
    /\ op = "to_nice_name" /\ out # << >>
    /\ \E i, j \in DOMAIN arg :
          /\ i < j /\ arg[i] = DOT /\ arg[j] = MAIN_SEPARATOR
          /\ \A k \in (j + 1)..Len(arg) : arg[k] \notin {DOT, MAIN_SEPARATOR}
          /\ j < Len(arg)
          /\ out[1] = SubSeq(arg, j + 1, Len(arg))

\* C18: is_rx exactness: a value with exactly the read and execute bits
\* set satisfies is_rx, a value with read, execute and write set does not,
\* and no other flags word satisfies it (an exact match with READABLE union
\* EXECUTABLE, not a superset test); the one value of the snapshot platform
\* is readable, executable, not writable, and satisfies is_rx.
C18_IsRxExact ==
    (op = "flags" /\ pc = "output") =>
        IF platform = "unix"
        THEN /\ arg.a = 4 + 1 => out.is_rx
             /\ arg.a = 4 + 2 + 1 => ~out.is_rx
             /\ out.is_rx => arg.a = 4 + 1
        ELSE out.is_rx /\ out.has_r /\ out.has_x /\ ~out.has_w

\* C18 witness: is_rx was evaluated on a word with the read, write and
\* execute bits set and returned false.
C18_Witness ==
    /\ op = "flags" /\ pc = "output" /\ platform = "unix"
    /\ arg.a = 4 + 2 + 1
    /\ ~out.is_rx /\ out.has_r /\ out.has_x /\ out.has_w

\* C19 as stated: for any bit pattern of the flags word, is_rx holds exactly
\* when has_r and has_x hold and has_w does not.
C19_Original ==
    (op = "flags" /\ pc = "output") =>
        (out.is_rx = (out.has_r /\ out.has_x /\ ~out.has_w))

\* C19: for every SegmentFlags value, is_rx implies has_r, has_x and not
\* has_w; for a value whose word has no bit outside the read, write and
\* execute bits, is_rx holds exactly when has_r and has_x hold and has_w
\* does not.
C19_IsRxMeansReadExecuteOnly ==
    (op = "flags" /\ pc = "output") =>
        /\ out.is_rx => (out.has_r /\ out.has_x /\ ~out.has_w)
        /\ (platform = "unix" /\ arg.a <= 4 + 2 + 1) =>
              (out.is_rx = (out.has_r /\ out.has_x /\ ~out.has_w))
        /\ platform = "windows" =>
              (out.is_rx = (out.has_r /\ out.has_x /\ ~out.has_w))

\* C19 witness: a word with the read and execute bits and a bit outside the
\* three permission bits: has_r and has_x hold, has_w does not, is_rx is false.
C19_Witness ==
    /\ op = "flags" /\ pc = "output" /\ platform = "unix"
    /\ arg.a > 4 + 2 + 1
    /\ out.has_r /\ out.has_x /\ ~out.has_w
    /\ ~out.is_rx

\* The objects of the list whose is_main_program() is true; on windows for
\* the image base b.
UnixMainPrograms == {o \in DOMAIN objs : unix_is_main_program(objs[o])}
WindowsMainPrograms(b) == {o \in DOMAIN objs : windows_is_main_program(o, b)}

\* C21: main-program uniqueness: exactly one loaded object has
\* is_main_program() true, and a for_each whose callback records
\* is_main_program() of each visited object and stops on the first true one
\* ends with the recorded value true (the callback was invoked, and the
\* last object it was invoked on is the main program).
C21_ExactlyOneMainProgram ==
    (op = "for_each" /\ rkind = "bool" /\ pc = "done" /\ result.tag = "Ok") =>
        /\ (platform = "unix" /\ fsel = UnixMainPrograms) =>
              /\ Cardinality(UnixMainPrograms) = 1
              /\ fcalls # << >>
              /\ unix_is_main_program(objs[fcalls[Len(fcalls)]])
        /\ platform = "windows" =>
              \A b \in DOMAIN objs :
                  fsel = WindowsMainPrograms(b) =>
                      /\ Cardinality(WindowsMainPrograms(b)) = 1
                      /\ fcalls # << >>
                      /\ windows_is_main_program(fcalls[Len(fcalls)], b)

\* C22: snapshot failure is surfaced without side effects: on the snapshot
\* platform, when the creation of the snapshot or the retrieval of its first
\* entry fails, find_map and for_each return that failure at once: the
\* callback was invoked on no object, no module was iterated, no second
\* snapshot is attempted, and these operations fail for no other reason.
C22_SnapshotFailureSurfaced ==
    (platform = "windows" /\ op \in {"find_map", "for_each"}) =>
        /\ osFailed =>
              /\ pc = "done"
              /\ result = [tag |-> "Err", val |-> None]
              /\ fcalls = << >>
              /\ visited = << >>
              /\ iterEntry = 0
              /\ snap \in {"none", "closed"}
        /\ result.tag = "Err" => osFailed

\* C22 witness: the first entry could not be retrieved in a process with
\* several modules, on one of which the callback would have stopped; the
\* operation has returned the failure.
C22_Witness ==
    /\ platform = "windows" /\ op \in {"find_map", "for_each"}
    /\ osFailed /\ pc = "done" /\ result.tag = "Err"
    /\ snap = "closed"
    /\ Len(objs) >= 2 /\ fsel # {}

\* C23: set algebra of SegmentFlags: | and & are associative bitwise
\* operations over the flag bits: (a | b) | c = a | (b | c), and a | b and
\* a & b are again SegmentFlags values (flag words), so that (a & b) & c and
\* a & (b & c) exist and are equal.
C23_SetAlgebra ==
    (op = "flags" /\ pc = "output" /\ platform = "unix") =>
        /\ out.or_ab_c = out.or_a_bc
        /\ out.or_ab_c \in FlagWords
        /\ out.union \in FlagWords
        /\ out.and_ab \notin BOOLEAN
        /\ out.and_ab \in FlagWords

\* C24: the default name_matches(object_name) is true iff at least one of
\* the entry's candidate names is byte-equal to object_name or byte-equal to
\* the nice name of object_name (its part after the last separator, cut
\* before the first '.').
C24_DefaultNameMatches ==
    (op = "name_matches" /\ pc = "output") =>
        (out.matches =
            \E n \in DOMAIN arg.entry.names :
                \/ arg.entry.names[n] = arg.name
                \/ IsNicePart(arg.name, arg.entry.names[n]))

\* C24 witness: an entry with two candidates matched an object name that
\* equals neither, through the nice name and its second candidate.
C24_Witness ==
    /\ op = "name_matches" /\ pc = "output"
    /\ out.matches
    /\ Len(arg.entry.names) = 2
    /\ \A n \in DOMAIN arg.entry.names : arg.entry.names[n] # arg.name
    /\ to_nice_name(arg.name) = arg.entry.names[2]

\* C25: completeness of a batch pass: when fill_map has returned
\* successfully, under either strategy, every slot for which some loaded
\* object matches one of its candidates is written; a slot is unwritten
\* only if no loaded object matches it, whatever the order of the objects
\* and the number of slots.
C25_BatchComplete ==
    /\ (pc # "push" /\ resU = "Ok") =>
          \A i \in DOMAIN map0 :
              ~mapU[i].val.some => \A o \in DOMAIN objs : ~PushMatches(i, o)
    /\ (pc = "done" /\ resW = "Ok") =>
          \A i \in DOMAIN map0 :
              ~mapW[i].val.some => ~PullResolves(i)

\* C25 witness: of two unwritten slots, the first matched only the last of
\* several objects and was written under both strategies, the second
\* matches no object and is unwritten.
C25_Witness ==
    /\ pc = "done" /\ resU = "Ok" /\ resW = "Ok"
    /\ Len(map0) = 2 /\ Len(objs) >= 2
    /\ ~map0[1].val.some /\ ~map0[2].val.some
    /\ mapU[1].val = Some(Len(objs)) /\ mapW[1].val = Some(Len(objs))
    /\ ~mapU[2].val.some /\ ~mapW[2].val.some

\* C26: is_full() is true iff every entry of the map reports is_written()
\* (so a map without entries is full); the is_written() of a
\* (name, Option<V>) entry is true iff its option is Some; and no write
\* turns a written entry back into an unwritten one.
C26_FullIffAllWritten ==
    op = "map" =>
        /\ out.full = (\A i \in DOMAIN arg : out.written[i])
        /\ arg = << >> => out.full
        /\ \A i \in DOMAIN arg : out.written[i] = (arg[i].val # None)
        /\ \A i \in out.was : out.written[i]

\* C26 witness: write was called on both entries of a map after each had
\* been written, and the map is full.
C26_Witness ==
    /\ op = "map"
    /\ Len(arg) = 2
    /\ out.was = {1, 2}
    /\ out.full
    /\ arg[1].val # Prewritten /\ arg[2].val # Prewritten

\* C27: an iterator over a snapshot yields the snapshot's entries in order
\* starting with the first, each exactly once; when it has ended it has
\* yielded every entry, and once the platform reported no next entry no
\* further platform call is made; every iterator taken with iter() starts
\* again from the first entry and does the same.
C27_IteratorYieldsEveryEntryOnce ==
    (op = "iter" /\ pc = "iter") =>
        /\ visited = [k \in 1..Len(visited) |-> k]
        /\ (iterEntry = 0 => visited = [k \in 1..Len(objs) |-> k])
        /\ out.late = 0
\* The closure result x of type rk is a stop signal: bool true, Break, Some(n).
IsStopSignal(rk, x) ==
    CASE rk = "unit" -> FALSE
      [] rk = "raw"  -> x.some
      [] rk = "bool" -> x
      [] rk = "cf"   -> x = "Break"

\* C28: the value the callback returns to the platform is nonzero exactly
\* when the closure's result is a stop signal (bool true, Break, Some(n)) and
\* zero for (), false, Continue and None; for bool, ControlFlow<()> and
\* Option<NonZero> converting a value to its raw form and back gives the same
\* value, also when the raw form travels through the platform's return value.
C28_StopSignalEncoding ==
    op = "for_each_object" =>
        /\ \A k \in DOMAIN arg :
            /\ (for_each_object_callback(rkind, arg[k]) # 0) <=> IsStopSignal(rkind, arg[k])
            /\ rkind # "unit" => from_raw(rkind, into_raw(rkind, arg[k])) = arg[k]
        /\ visited # << >> =>
            ((raw # 0) <=> IsStopSignal(rkind, arg[visited[Len(visited)]]))
        /\ (pc = "returned" /\ rkind # "unit") => out[1] = arg[visited[Len(visited)]]

\* C28 witness: a closure returning Option<NonZero> stopped the traversal at
\* the second of three objects with a negative value, and for_each_object
\* returned that value.
C28_Witness ==
    /\ op = "for_each_object" /\ pc = "returned" /\ rkind = "raw"
    /\ Len(arg) = 3 /\ Len(visited) = 2
    /\ arg[2].some /\ arg[2].get < 0
    /\ out = << arg[2] >>
====
